---------------------------- MODULE Spec2Model ----------------------------
(***************************************************************************)
(* The task scripts of tsunami-wasm-contracts (query_basket, query_lp,     *)
(* provide_liquidity, swap, withdraw, the hardcoded swap) and the harness  *)
(* stub, modelled as Node.js processes talking to one chain node.          *)
(*                                                                         *)
(* A process is a record of its inputs (script, environment, argv) and its *)
(* locals.  One action is one turn of the event loop: the settling of the  *)
(* promise the script awaits, followed by the synchronous code of main up  *)
(* to the next await.  Text (argv entries, JSON, base64) is a sequence of  *)
(* character codes.                                                        *)
(***************************************************************************)
EXTENDS Integers, Sequences, FiniteSets, TLC

VARIABLES proc, ledger, clientCalls

vars == <<proc, ledger, clientCalls>>

---------------------------------------------------------------------------
(* Bounds of the model *)

\* the longest command line tried (entries after the script name)
MaxArgs == 3
\* the processes that may run at the same time
NumRuns == 2
\* the calls made on the harness stub
MaxCalls == 3

Runs == 1..NumRuns

---------------------------------------------------------------------------
(* Text *)

ULUNA == <<117, 108, 117, 110, 97>>
UUSD == <<117, 117, 115, 100>>
AMOUNT_100000 == <<49, 48, 48, 48, 48, 48>>
\* a"b : a denom holding a double quote and a backslash follows
QUOTED == <<97, 34, 92>>
\* a Latin-1 letter (e with acute) and a line feed
LATIN1 == <<233, 10>>
\* the euro sign, U+20AC, outside Latin-1
EURO == <<117, 8364>>

ArgValues == {ULUNA, UUSD, AMOUNT_100000, QUOTED, LATIN1, EURO}

K_withdraw_liquidity ==
  <<119, 105, 116, 104, 100, 114, 97, 119, 95, 108, 105, 113, 117, 105, 100, 105, 116, 121>>
K_asset == <<97, 115, 115, 101, 116>>
K_native_token == <<110, 97, 116, 105, 118, 101, 95, 116, 111, 107, 101, 110>>
K_denom == <<100, 101, 110, 111, 109>>

\* JSON values: strings and objects (key/value pairs in insertion order)
Str(s) == [t |-> "str", s |-> s, kv |-> <<>>]
Obj(kv) == [t |-> "obj", s |-> <<>>, kv |-> kv]

HexDigit(n) == IF n < 10 THEN 48 + n ELSE 87 + n

\* JSON.stringify's QuoteJSONString, one code unit
JSON_escape(c) ==
  CASE c = 34 -> <<92, 34>>
    [] c = 92 -> <<92, 92>>
    [] c = 8  -> <<92, 98>>
    [] c = 9  -> <<92, 116>>
    [] c = 10 -> <<92, 110>>
    [] c = 12 -> <<92, 102>>
    [] c = 13 -> <<92, 114>>
    [] c < 32 /\ c \notin {8, 9, 10, 12, 13} ->
         <<92, 117, 48, 48, HexDigit(c \div 16), HexDigit(c % 16)>>
    [] OTHER -> <<c>>

RECURSIVE JSON_quote_from(_, _)
JSON_quote_from(s, i) ==
  IF i > Len(s) THEN <<>> ELSE JSON_escape(s[i]) \o JSON_quote_from(s, i + 1)

JSON_quote(s) == <<34>> \o JSON_quote_from(s, 1) \o <<34>>

RECURSIVE JSON_stringify(_)
RECURSIVE JSON_members(_, _)
JSON_members(kv, i) ==
  IF i > Len(kv) THEN <<>>
  ELSE (IF i > 1 THEN <<44>> ELSE <<>>)
       \o JSON_quote(kv[i][1]) \o <<58>> \o JSON_stringify(kv[i][2])
       \o JSON_members(kv, i + 1)

JSON_stringify(v) ==
  IF v.t = "str" THEN JSON_quote(v.s)
  ELSE <<123>> \o JSON_members(v.kv, 1) \o <<125>>

\* JSON.parse, for the strings and objects JSON.stringify writes (no white space).
\* No script calls JSON.parse or atob: they are the reader's side of the hook,
\* defined here to state what the encoded hook decodes to.
SyntaxError == [t |-> "SyntaxError", s |-> <<>>, kv |-> <<>>]
ParseFail == [ok |-> FALSE, v |-> SyntaxError, next |-> 0]

HexValue(c) ==
  CASE c \in 48..57 -> c - 48
    [] c \in 97..102 -> c - 87
    [] c \in 65..70 -> c - 55
    [] OTHER -> -1

RECURSIVE JSON_scanString(_, _, _)
JSON_scanString(s, i, acc) ==
  IF i > Len(s) THEN ParseFail
  ELSE IF s[i] = 34 THEN [ok |-> TRUE, v |-> Str(acc), next |-> i + 1]
  ELSE IF s[i] < 32 THEN ParseFail
  ELSE IF s[i] # 92 THEN JSON_scanString(s, i + 1, Append(acc, s[i]))
  ELSE IF i + 1 > Len(s) THEN ParseFail
  ELSE LET c == s[i + 1] IN
       CASE c \in {34, 92, 47} -> JSON_scanString(s, i + 2, Append(acc, c))
         [] c = 98  -> JSON_scanString(s, i + 2, Append(acc, 8))
         [] c = 102 -> JSON_scanString(s, i + 2, Append(acc, 12))
         [] c = 110 -> JSON_scanString(s, i + 2, Append(acc, 10))
         [] c = 114 -> JSON_scanString(s, i + 2, Append(acc, 13))
         [] c = 116 -> JSON_scanString(s, i + 2, Append(acc, 9))
         [] c = 117 ->
              IF i + 5 > Len(s) \/ \E k \in 2..5 : HexValue(s[i + k]) < 0
              THEN ParseFail
              ELSE JSON_scanString(s, i + 6, Append(acc,
                     4096 * HexValue(s[i + 2]) + 256 * HexValue(s[i + 3])
                     + 16 * HexValue(s[i + 4]) + HexValue(s[i + 5])))
         [] OTHER -> ParseFail

RECURSIVE JSON_parseValue(_, _)
RECURSIVE JSON_parseMembers(_, _, _)
JSON_parseMembers(s, i, acc) ==
  IF i > Len(s) \/ s[i] # 34 THEN ParseFail
  ELSE LET k == JSON_scanString(s, i + 1, <<>>) IN
       IF ~k.ok \/ k.next > Len(s) \/ s[k.next] # 58 THEN ParseFail
       ELSE LET v == JSON_parseValue(s, k.next + 1) IN
            IF ~v.ok \/ v.next > Len(s) THEN ParseFail
            ELSE LET kv == Append(acc, <<k.v.s, v.v>>) IN
                 CASE s[v.next] = 44 -> JSON_parseMembers(s, v.next + 1, kv)
                   [] s[v.next] = 125 ->
                        [ok |-> TRUE, v |-> Obj(kv), next |-> v.next + 1]
                   [] OTHER -> ParseFail

JSON_parseValue(s, i) ==
  IF i > Len(s) THEN ParseFail
  ELSE CASE s[i] = 34 -> JSON_scanString(s, i + 1, <<>>)
         [] s[i] = 123 ->
              IF i + 1 <= Len(s) /\ s[i + 1] = 125
              THEN [ok |-> TRUE, v |-> Obj(<<>>), next |-> i + 2]
              ELSE JSON_parseMembers(s, i + 1, <<>>)
         [] OTHER -> ParseFail

JSON_parse(s) ==
  LET r == JSON_parseValue(s, 1) IN
  IF r.ok /\ r.next = Len(s) + 1 THEN r.v ELSE SyntaxError

\* the base64 alphabet: A-Z a-z 0-9 + /
B64Char(n) ==
  CASE n < 26 -> 65 + n
    [] n \in 26..51 -> 71 + n
    [] n \in 52..61 -> n - 4
    [] n = 62 -> 43
    [] OTHER -> 47

B64Index(c) ==
  CASE c \in 65..90 -> c - 65
    [] c \in 97..122 -> c - 71
    [] c \in 48..57 -> c + 4
    [] c = 43 -> 62
    [] c = 47 -> 63
    [] OTHER -> -1

\* btoa throws InvalidCharacterError on a code unit above 0xFF
btoa_throws(s) == \E i \in 1..Len(s) : s[i] > 255

RECURSIVE btoa_from(_, _)
btoa_from(s, i) ==
  IF i > Len(s) THEN <<>>
  ELSE LET n  == Len(s)
           b0 == s[i]
           b1 == IF i + 1 <= n THEN s[i + 1] ELSE 0
           b2 == IF i + 2 <= n THEN s[i + 2] ELSE 0
       IN <<B64Char(b0 \div 4),
            B64Char((b0 % 4) * 16 + b1 \div 16),
            IF i + 1 <= n THEN B64Char((b1 % 16) * 4 + b2 \div 64) ELSE 61,
            IF i + 2 <= n THEN B64Char(b2 % 64) ELSE 61>>
          \o btoa_from(s, i + 3)

btoa(s) == btoa_from(s, 1)

\* atob: <<-1>> stands for the InvalidCharacterError it throws
RECURSIVE atob_from(_, _)
atob_from(t, i) ==
  IF i > Len(t) THEN <<>>
  ELSE LET a == B64Index(t[i])
           b == B64Index(t[i + 1])
           c == IF t[i + 2] = 61 THEN 0 ELSE B64Index(t[i + 2])
           d == IF t[i + 3] = 61 THEN 0 ELSE B64Index(t[i + 3])
       IN <<a * 4 + b \div 16>>
          \o (IF t[i + 2] = 61 THEN <<>> ELSE <<(b % 16) * 16 + c \div 4>>)
          \o (IF t[i + 3] = 61 THEN <<>> ELSE <<(c % 4) * 64 + d>>)
          \o atob_from(t, i + 4)

atob(t) ==
  IF \/ Len(t) % 4 # 0
     \/ \E i \in 1..Len(t) :
          /\ B64Index(t[i]) < 0
          /\ ~(t[i] = 61 /\ i >= Len(t) - 1 /\ (i = Len(t) \/ t[Len(t)] = 61))
  THEN <<-1>>
  ELSE atob_from(t, 1)

---------------------------------------------------------------------------
(* The inputs of a run and the locals of its process *)

BASKET == "terra1basket"
LP == "terra1lptoken"
HARDCODED_CONTRACT == "terra122dgdy3a6mwlru6deqynrsm3n7e0qax999q3za"
MNEMONIC == "notice oak worry ... crew genius"

Scripts ==
  {"query_basket", "query_lp", "provide_liquidity", "swap", "withdraw", "swap_hardcoded"}

\* process.env: an unset variable and an empty one are both falsy
Envs == [CONTRACT : {"", BASKET}, LP_CONTRACT : {"", LP}]

\* process.argv.slice(2)
Argvs == UNION {[1..n -> ArgValues] : n \in 0..MaxArgs}

UNDEFINED == <<-1>>

ResultVars == {"result", "balanceBefore", "lpBalanceBefore", "balanceAfter", "lpBalanceAfter"}

NoAddress == <<>>

NoMsg == [sender |-> NoAddress, contract |-> "", execute_msg |-> [none |-> TRUE], coins |-> <<>>]
NoTx == [msgs |-> <<>>, signer |-> NoAddress, signed |-> FALSE]

Process(script, env, argv, pc) ==
  [script |-> script, env |-> env, argv |-> argv, pc |-> pc, awaiting |-> "",
   trace |-> <<>>, queries |-> <<>>, mk |-> "", wallet |-> "",
   msg |-> NoMsg, tx |-> NoTx, txResult |-> "",
   seen |-> [v \in ResultVars |-> -1], error |-> ""]

\* a process that was never launched
Off == Process("none", [CONTRACT |-> "", LP_CONTRACT |-> ""], <<>>, "off")

---------------------------------------------------------------------------
(* What the scripts call *)

Emit(p, ev) == [p EXCEPT !.trace = Append(@, ev)]

console_log(p, what) == Emit(p, <<"log", what>>)

new(p, class) == Emit(p, <<"new", class>>)

\* a promise is created by calling api; main goes on until it awaits one
start(p, api) == [Emit(p, <<"call", api>>) EXCEPT !.awaiting = api]

await(p, var) == [p EXCEPT !.pc = var]

\* main runs off its end; a promise nobody awaits keeps the process alive
return(p) ==
  [Emit(p, <<"return", "main">>) EXCEPT
     !.pc = IF p.awaiting = "" THEN "done" ELSE "returned"]

throw(p, err) ==
  [Emit(p, <<"throw", err>>) EXCEPT !.pc = "crashed", !.awaiting = "", !.error = err]

Halted(p) == p.pc = "crashed"

\* (mutant) exit as a call that comes back
exit_returns(p, status) == p

\* exit(1): the scripts neither declare nor import exit, and Node.js has no such
\* global (it is process.exit), so the call throws a ReferenceError, which ends
\* the script at that statement
exit(p, status) == throw(p, "ReferenceError")

\* (mutant) swap's copy of the phrase differs from the others
mnemonic_swap_differs(script) ==
  CASE script \in {"query_lp", "provide_liquidity", "withdraw", "swap_hardcoded"} -> MNEMONIC
    [] script = "swap" -> "another phrase"
    [] OTHER -> ""

\* each script holds its own copy of the phrase
mnemonic(script) ==
  CASE script = "query_lp" -> MNEMONIC
    [] script = "provide_liquidity" -> MNEMONIC
    [] script = "swap" -> MNEMONIC
    [] script = "withdraw" -> MNEMONIC
    [] script = "swap_hardcoded" -> MNEMONIC
    [] OTHER -> ""

\* mk.accAddress: the address is a function of the phrase alone
accAddress(phrase) == <<"terra1", phrase>>

MnemonicKey(p) == [new(p, "MnemonicKey") EXCEPT !.mk = mnemonic(p.script)]

lcd_wallet(p) == [Emit(p, <<"call", "lcd.wallet">>) EXCEPT !.wallet = p.mk]

\* new Coins(gasPrices); new LCDClient({..., gasPrices: gasPricesCoins, ...})
LCDClient(p) == new(new(p, "Coins"), "LCDClient")

contractQuery(p, contract, q, address) ==
  [start(p, "contractQuery") EXCEPT
     !.queries = Append(@, [api |-> "contractQuery", to |-> contract,
                            q |-> q, address |-> address])]

bank_balance(p, address) ==
  [start(p, "bank.balance") EXCEPT
     !.queries = Append(@, [api |-> "bank.balance", to |-> "",
                            q |-> "balance", address |-> address])]

MsgExecuteContract(p, sender, contract, execute_msg, coins) ==
  [new(p, "MsgExecuteContract") EXCEPT
     !.msg = [sender |-> sender, contract |-> contract,
              execute_msg |-> execute_msg, coins |-> coins]]

\* (mutant) the transaction is signed with a key other than the wallet's
createAndSignTx_other_key(p, msgs) ==
  [start(p, "createAndSignTx") EXCEPT
     !.tx = [msgs |-> msgs, signer |-> accAddress("another phrase"), signed |-> FALSE]]

\* wallet.createAndSignTx({msgs: [msg]}): signs with the wallet's key
createAndSignTx(p, msgs) ==
  [start(p, "createAndSignTx") EXCEPT
     !.tx = [msgs |-> msgs, signer |-> accAddress(p.wallet), signed |-> FALSE]]

broadcast(p) == start(p, "broadcast")

Arg(p, i) == IF i <= Len(p.argv) THEN p.argv[i] ELSE UNDEFINED

---------------------------------------------------------------------------
(* The scripts.  X_js is the file's top-level code, run when the process   *)
(* starts; X_main(p, at) is main from the point `at`: "start", or the name *)
(* of the variable whose awaited value has just arrived.                   *)

\* (mutant) the result is printed before the query is made
query_basket_main_prints_first(p, at) ==
  CASE at = "start" ->
         LET p1 == IF p.env.CONTRACT = ""
                   THEN exit(console_log(p, "Please set CONTRACT"), 1) ELSE p
         IN IF Halted(p1) THEN p1
            ELSE await(start(console_log(p1, "contract"), "fetch"), "response")
    [] at = "response" -> await(start(p, "json"), "gasPrices")
    [] at = "gasPrices" ->
         await(contractQuery(console_log(LCDClient(p), "result"),
                             p.env.CONTRACT, "basket", NoAddress), "result")
    [] at = "result" -> return(p)
    [] OTHER -> p

query_basket_main(p, at) ==
  CASE at = "start" ->
         LET p1 == IF p.env.CONTRACT = ""
                   THEN exit(console_log(p, "Please set CONTRACT"), 1) ELSE p
         IN IF Halted(p1) THEN p1
            ELSE await(start(console_log(p1, "contract"), "fetch"), "response")
    [] at = "response" -> await(start(p, "json"), "gasPrices")
    [] at = "gasPrices" ->
         await(contractQuery(LCDClient(p), p.env.CONTRACT, "basket", NoAddress), "result")
    [] at = "result" -> return(console_log(p, "result"))
    [] OTHER -> p

query_basket_js(p) == query_basket_main(p, "start")

\* (mutant) the balance is asked of the basket contract
query_lp_main_asks_basket(p, at) ==
  CASE at = "start" ->
         LET p1 == IF p.env.LP_CONTRACT = ""
                   THEN exit(console_log(p, "Please set LP_CONTRACT"), 1) ELSE p
         IN IF Halted(p1) THEN p1
            ELSE await(start(console_log(p1, "contract"), "fetch"), "response")
    [] at = "response" -> await(start(p, "json"), "gasPrices")
    [] at = "gasPrices" ->
         LET p1 == MnemonicKey(LCDClient(p))
         IN await(contractQuery(p1, p1.env.CONTRACT, "balance", accAddress(p1.mk)),
                  "result")
    [] at = "result" -> return(console_log(p, "result"))
    [] OTHER -> p

query_lp_main(p, at) ==
  CASE at = "start" ->
         LET p1 == IF p.env.LP_CONTRACT = ""
                   THEN exit(console_log(p, "Please set LP_CONTRACT"), 1) ELSE p
         IN IF Halted(p1) THEN p1
            ELSE await(start(console_log(p1, "contract"), "fetch"), "response")
    [] at = "response" -> await(start(p, "json"), "gasPrices")
    [] at = "gasPrices" ->
         LET p1 == MnemonicKey(LCDClient(p))
         IN await(contractQuery(p1, p1.env.LP_CONTRACT, "balance", accAddress(p1.mk)),
                  "result")
    [] at = "result" -> return(console_log(p, "result"))
    [] OTHER -> p

query_lp_js(p) == query_lp_main(p, "start")

\* the CONTRACT and LP_CONTRACT checks that open main in provide_liquidity, swap
\* and withdraw (the three copies are the same text)
env_checks(p) ==
  LET p1 == IF p.env.CONTRACT = ""
            THEN exit(console_log(p, "Please set CONTRACT"), 1) ELSE p
  IN IF Halted(p1) THEN p1
     ELSE IF p1.env.LP_CONTRACT = ""
          THEN exit(console_log(p1, "Please set LP_CONTRACT"), 1) ELSE p1

provide_liquidity_msg(wallet, contract, denom, amount) ==
  [sender |-> accAddress(wallet),
   contract |-> contract,
   execute_msg |->
     [deposit_liquidity |->
        [assets |-> <<[amount |-> amount,
                       info |-> [native_token |-> [denom |-> denom]]]>>]],
   coins |-> <<[denom |-> denom, amount |-> amount]>>]

provide_liquidity_main(p, at) ==
  LET denom == Arg(p, 1)
      amount == Arg(p, 2)
  IN
  CASE at = "start" ->
         LET p1 == env_checks(p)
         IN IF Halted(p1) THEN p1
            ELSE await(start(console_log(p1, "contract"), "fetch"), "response")
    [] at = "response" -> await(start(p, "json"), "gasPrices")
    [] at = "gasPrices" ->
         LET p1 == MnemonicKey(LCDClient(p))
         IN await(bank_balance(p1, accAddress(p1.mk)), "balanceBefore")
    [] at = "balanceBefore" ->
         await(contractQuery(p, p.env.LP_CONTRACT, "balance", accAddress(p.mk)),
               "lpBalanceBefore")
    [] at = "lpBalanceBefore" ->
         LET p1 == console_log(p, "before provide liquidity, you have:")
             p2 == console_log(p1, "balanceBefore")
             p3 == console_log(p2, "LP token:")
             p4 == console_log(p3, "lpBalanceBefore")
             p5 == lcd_wallet(p4)
             m  == provide_liquidity_msg(p5.wallet, p5.env.CONTRACT, denom, amount)
             p6 == MsgExecuteContract(p5, m.sender, m.contract, m.execute_msg, m.coins)
         IN await(createAndSignTx(p6, <<p6.msg>>), "tx")
    [] at = "tx" -> await(broadcast(p), "result")
    [] at = "result" ->
         LET p1 == console_log(p, "result")
         IN await(bank_balance(p1, accAddress(p1.mk)), "balanceAfter")
    [] at = "balanceAfter" ->
         await(contractQuery(p, p.env.LP_CONTRACT, "balance", accAddress(p.mk)),
               "lpBalanceAfter")
    [] at = "lpBalanceAfter" ->
         LET p1 == console_log(p, "after provide liquidity, you have:")
             p2 == console_log(p1, "balanceAfter")
             p3 == console_log(p2, "LP token:")
         IN return(console_log(p3, "lpBalanceAfter"))
    [] OTHER -> p

provide_liquidity_js(p) ==
  LET p1 == IF Len(p.argv) < 2 THEN exit(console_log(p, "Usage"), 1) ELSE p
  IN IF Halted(p1) THEN p1 ELSE provide_liquidity_main(p1, "start")

\* (mutant) the coins attached are of the asked denom
swap_msg_attaches_ask(wallet, contract, offer_asset, offer_amount, ask_asset) ==
  [sender |-> accAddress(wallet),
   contract |-> contract,
   execute_msg |->
     [swap |->
        [ask_asset |-> [native_token |-> [denom |-> ask_asset]],
         offer_asset |-> [amount |-> offer_amount,
                          info |-> [native_token |-> [denom |-> offer_asset]]],
         sender |-> accAddress(wallet)]],
   coins |-> <<[denom |-> ask_asset, amount |-> offer_amount]>>]

swap_msg(wallet, contract, offer_asset, offer_amount, ask_asset) ==
  [sender |-> accAddress(wallet),
   contract |-> contract,
   execute_msg |->
     [swap |->
        [ask_asset |-> [native_token |-> [denom |-> ask_asset]],
         offer_asset |-> [amount |-> offer_amount,
                          info |-> [native_token |-> [denom |-> offer_asset]]],
         sender |-> accAddress(wallet)]],
   coins |-> <<[denom |-> offer_asset, amount |-> offer_amount]>>]

\* (mutant) the after balance is queried before the transaction is broadcast
swap_main_after_too_early(p, at) ==
  LET offer_asset == Arg(p, 1)
      offer_amount == Arg(p, 2)
      ask_asset == Arg(p, 3)
  IN
  CASE at = "start" ->
         LET p1 == env_checks(p)
         IN IF Halted(p1) THEN p1 ELSE await(start(p1, "fetch"), "response")
    [] at = "response" -> await(start(p, "json"), "gasPrices")
    [] at = "gasPrices" ->
         LET p1 == lcd_wallet(MnemonicKey(LCDClient(p)))
         IN await(bank_balance(p1, accAddress(p1.mk)), "balanceBefore")
    [] at = "balanceBefore" ->
         LET p1 == console_log(p, "before swap, you have:")
             p2 == console_log(p1, "balanceBefore")
             m  == swap_msg(p2.wallet, p2.env.CONTRACT, offer_asset, offer_amount, ask_asset)
             p3 == MsgExecuteContract(p2, m.sender, m.contract, m.execute_msg, m.coins)
         IN await(createAndSignTx(p3, <<p3.msg>>), "tx")
    [] at = "tx" -> await(bank_balance(p, accAddress(p.mk)), "balanceAfter")
    [] at = "balanceAfter" -> await(broadcast(p), "result")
    [] at = "result" ->
         LET p1 == console_log(p, "result")
             p2 == console_log(p1, "after swap, you have:")
         IN return(console_log(p2, "balanceAfter"))
    [] OTHER -> p

swap_main(p, at) ==
  LET offer_asset == Arg(p, 1)
      offer_amount == Arg(p, 2)
      ask_asset == Arg(p, 3)
  IN
  CASE at = "start" ->
         LET p1 == env_checks(p)
         IN IF Halted(p1) THEN p1 ELSE await(start(p1, "fetch"), "response")
    [] at = "response" -> await(start(p, "json"), "gasPrices")
    [] at = "gasPrices" ->
         LET p1 == lcd_wallet(MnemonicKey(LCDClient(p)))
         IN await(bank_balance(p1, accAddress(p1.mk)), "balanceBefore")
    [] at = "balanceBefore" ->
         LET p1 == console_log(p, "before swap, you have:")
             p2 == console_log(p1, "balanceBefore")
             m  == swap_msg(p2.wallet, p2.env.CONTRACT, offer_asset, offer_amount, ask_asset)
             p3 == MsgExecuteContract(p2, m.sender, m.contract, m.execute_msg, m.coins)
         IN await(createAndSignTx(p3, <<p3.msg>>), "tx")
    [] at = "tx" -> await(broadcast(p), "result")
    [] at = "result" ->
         LET p1 == console_log(p, "result")
         IN await(bank_balance(p1, accAddress(p1.mk)), "balanceAfter")
    [] at = "balanceAfter" ->
         LET p1 == console_log(p, "after swap, you have:")
         IN return(console_log(p1, "balanceAfter"))
    [] OTHER -> p

swap_js(p) ==
  LET p1 == IF Len(p.argv) < 3 THEN exit(console_log(p, "Usage"), 1) ELSE p
  IN IF Halted(p1) THEN p1 ELSE swap_main(p1, "start")

cw20HookMsg(denom) ==
  Obj(<< <<K_withdraw_liquidity,
           Obj(<< <<K_asset,
                    Obj(<< <<K_native_token,
                             Obj(<< <<K_denom, Str(denom)>> >>)>> >>)>> >>)>> >>)

\* (mutant) the hook is passed as JSON text, not base64
withdraw_msg_plain_json(wallet, contract, lpContract, denom, amount) ==
  [sender |-> accAddress(wallet),
   contract |-> lpContract,
   execute_msg |->
     [send |-> [contract |-> contract,
                amount |-> amount,
                msg |-> JSON_stringify(cw20HookMsg(denom))]],
   coins |-> <<>>]

withdraw_msg(wallet, contract, lpContract, denom, amount) ==
  [sender |-> accAddress(wallet),
   contract |-> lpContract,
   execute_msg |->
     [send |-> [contract |-> contract,
                amount |-> amount,
                msg |-> btoa(JSON_stringify(cw20HookMsg(denom)))]],
   coins |-> <<>>]

withdraw_main(p, at) ==
  LET denom == Arg(p, 1)
      amount == Arg(p, 2)
  IN
  CASE at = "start" ->
         LET p1 == env_checks(p)
         IN IF Halted(p1) THEN p1
            ELSE await(start(console_log(p1, "contract"), "fetch"), "response")
    [] at = "response" -> await(start(p, "json"), "gasPrices")
    [] at = "gasPrices" ->
         LET p1 == MnemonicKey(LCDClient(p))
         IN await(bank_balance(p1, accAddress(p1.mk)), "balanceBefore")
    [] at = "balanceBefore" ->
         await(contractQuery(p, p.env.LP_CONTRACT, "balance", accAddress(p.mk)),
               "lpBalanceBefore")
    [] at = "lpBalanceBefore" ->
         LET p1 == console_log(p, "before provide liquidity, you have:")
             p2 == console_log(p1, "balanceBefore")
             p3 == console_log(p2, "LP token:")
             p4 == console_log(p3, "lpBalanceBefore")
             p5 == lcd_wallet(p4)
         IN IF btoa_throws(JSON_stringify(cw20HookMsg(denom)))
            THEN throw(Emit(p5, <<"call", "btoa">>), "InvalidCharacterError")
            ELSE LET m  == withdraw_msg(p5.wallet, p5.env.CONTRACT, p5.env.LP_CONTRACT,
                                        denom, amount)
                     p6 == MsgExecuteContract(Emit(p5, <<"call", "btoa">>),
                                              m.sender, m.contract, m.execute_msg, m.coins)
                 IN await(createAndSignTx(p6, <<p6.msg>>), "tx")
    [] at = "tx" -> await(broadcast(p), "result")
    [] at = "result" ->
         LET p1 == console_log(p, "result")
         IN await(bank_balance(p1, accAddress(p1.mk)), "balanceAfter")
    [] at = "balanceAfter" ->
         await(contractQuery(p, p.env.LP_CONTRACT, "balance", accAddress(p.mk)),
               "lpBalanceAfter")
    [] at = "lpBalanceAfter" ->
         LET p1 == console_log(p, "after withdraw, you have:")
             p2 == console_log(p1, "balanceAfter")
             p3 == console_log(p2, "LP token:")
         IN return(console_log(p3, "lpBalanceAfter"))
    [] OTHER -> p

withdraw_js(p) ==
  LET p1 == IF Len(p.argv) < 2 THEN exit(console_log(p, "Usage"), 1) ELSE p
  IN IF Halted(p1) THEN p1 ELSE withdraw_main(p1, "start")

\* (mutant) the commented-out lines are live: sign, broadcast, query again
swap_hardcoded_main_broadcasts(p, at) ==
  CASE at = "start" -> await(start(p, "fetch"), "response")
    [] at = "response" -> await(start(p, "json"), "gasPrices")
    [] at = "gasPrices" ->
         LET p1 == lcd_wallet(MnemonicKey(LCDClient(p)))
         IN await(bank_balance(p1, accAddress(p1.mk)), "balanceBefore")
    [] at = "balanceBefore" ->
         LET p1 == console_log(p, "balanceBefore")
             m  == swap_msg(p1.wallet, HARDCODED_CONTRACT, ULUNA, AMOUNT_100000, UUSD)
             p2 == MsgExecuteContract(p1, m.sender, m.contract, m.execute_msg, m.coins)
         IN await(createAndSignTx(p2, <<p2.msg>>), "tx")
    [] at = "tx" -> await(broadcast(p), "result")
    [] at = "result" ->
         await(bank_balance(console_log(p, "result"), accAddress(p.mk)), "balanceAfter")
    [] at = "balanceAfter" -> return(console_log(p, "balanceAfter"))
    [] OTHER -> p

\* the swap script with everything written into it; its broadcast and its
\* second balance query are commented out, and createAndSignTx is not awaited
swap_hardcoded_main(p, at) ==
  CASE at = "start" -> await(start(p, "fetch"), "response")
    [] at = "response" -> await(start(p, "json"), "gasPrices")
    [] at = "gasPrices" ->
         LET p1 == lcd_wallet(MnemonicKey(LCDClient(p)))
         IN await(bank_balance(p1, accAddress(p1.mk)), "balanceBefore")
    [] at = "balanceBefore" ->
         LET p1 == console_log(p, "balanceBefore")
             m  == swap_msg(p1.wallet, HARDCODED_CONTRACT, ULUNA, AMOUNT_100000, UUSD)
             p2 == MsgExecuteContract(p1, m.sender, m.contract, m.execute_msg, m.coins)
         IN return(createAndSignTx(p2, <<p2.msg>>))
    [] OTHER -> p

swap_hardcoded_js(p) == swap_hardcoded_main(p, "start")

---------------------------------------------------------------------------
(* The event loop and the node *)

\* node <script>: the module's top-level code
run_script(p) ==
  CASE p.script = "query_basket" -> query_basket_js(p)
    [] p.script = "query_lp" -> query_lp_js(p)
    [] p.script = "provide_liquidity" -> provide_liquidity_js(p)
    [] p.script = "swap" -> swap_js(p)
    [] p.script = "withdraw" -> withdraw_js(p)
    [] p.script = "swap_hardcoded" -> swap_hardcoded_js(p)
    [] OTHER -> p

main(p, at) ==
  CASE p.script = "query_basket" -> query_basket_main(p, at)
    [] p.script = "query_lp" -> query_lp_main(p, at)
    [] p.script = "provide_liquidity" -> provide_liquidity_main(p, at)
    [] p.script = "swap" -> swap_main(p, at)
    [] p.script = "withdraw" -> withdraw_main(p, at)
    [] p.script = "swap_hardcoded" -> swap_hardcoded_main(p, at)
    [] OTHER -> p

\* the awaited promise is fulfilled: main resumes after the await.  A promise
\* that settles after main returned has nobody waiting: the process ends.
fulfil(p) ==
  LET q == [Emit(p, <<"got", IF p.pc = "returned" THEN "tx" ELSE p.pc>>)
              EXCEPT !.awaiting = ""]
  IN IF p.pc = "returned" THEN [q EXCEPT !.pc = "done"] ELSE main(q, p.pc)

\* the awaited promise is rejected (the node cannot be reached, or refuses):
\* no script catches anything, so the rejection ends the run
reject(p) == throw(p, "RequestError")

\* the transactions the chain has applied for one account, as a count: every
\* accepted transaction changes the sender's balance (it pays its fee)
AccountState(l, address) == Cardinality({i \in 1..Len(l) : l[i].sender = address})

Last(s) == s[Len(s)]

Start(r) ==
  /\ proc[r].pc = "start"
  /\ proc' = [proc EXCEPT ![r] = run_script(@)]
  /\ UNCHANGED <<ledger, clientCalls>>

FetchDone(r) ==
  /\ proc[r].awaiting = "fetch"
  /\ \E ok \in BOOLEAN :
       proc' = [proc EXCEPT ![r] = IF ok THEN fulfil(@) ELSE reject(@)]
  /\ UNCHANGED <<ledger, clientCalls>>

JsonDone(r) ==
  /\ proc[r].awaiting = "json"
  /\ \E ok \in BOOLEAN :
       proc' = [proc EXCEPT ![r] = IF ok THEN fulfil(@) ELSE reject(@)]
  /\ UNCHANGED <<ledger, clientCalls>>

BankBalanceDone(r) ==
  /\ proc[r].awaiting = "bank.balance"
  /\ \E ok \in BOOLEAN :
       proc' = [proc EXCEPT ![r] =
                  IF ok
                  THEN fulfil([@ EXCEPT !.seen[@.pc] =
                                 AccountState(ledger, Last(proc[r].queries).address)])
                  ELSE reject(@)]
  /\ UNCHANGED <<ledger, clientCalls>>

ContractQueryDone(r) ==
  /\ proc[r].awaiting = "contractQuery"
  /\ \E ok \in BOOLEAN :
       proc' = [proc EXCEPT ![r] =
                  IF ok
                  THEN fulfil([@ EXCEPT !.seen[@.pc] =
                                 IF Last(proc[r].queries).q = "balance"
                                 THEN AccountState(ledger, Last(proc[r].queries).address)
                                 ELSE Len(ledger)])
                  ELSE reject(@)]
  /\ UNCHANGED <<ledger, clientCalls>>

SignDone(r) ==
  /\ proc[r].awaiting = "createAndSignTx"
  /\ \E ok \in BOOLEAN :
       proc' = [proc EXCEPT ![r] =
                  IF ok THEN fulfil([@ EXCEPT !.tx.signed = TRUE]) ELSE reject(@)]
  /\ UNCHANGED <<ledger, clientCalls>>

\* lcd.tx.broadcast returns once the node has answered: the transaction was
\* applied, or it was refused (the result carries the error), or the request
\* itself failed
BroadcastDone(r) ==
  /\ proc[r].awaiting = "broadcast"
  /\ \E outcome \in {"accepted", "refused", "failed"} :
       /\ proc' = [proc EXCEPT ![r] =
                     IF outcome = "failed" THEN reject(@)
                     ELSE fulfil([@ EXCEPT !.txResult = outcome])]
       /\ ledger' = IF outcome = "accepted"
                    THEN Append(ledger, [run |-> r, sender |-> proc[r].tx.signer,
                                         contract |-> proc[r].tx.msgs[1].contract])
                    ELSE ledger
  /\ UNCHANGED clientCalls

---------------------------------------------------------------------------
(* The harness stub *)

VALIDATOR == "wallets.validator"

\* what a caller passes as signer: nothing, a wallet, or null
Signers == {"undefined", "wallets.alice", "wallets.bob", "null"}

\* getCount: () => client.query("basket", { get_count: {} })
getCount ==
  /\ Len(clientCalls) < MaxCalls
  /\ clientCalls' = Append(clientCalls,
       [by |-> "getCount", passed |-> "undefined",
        fn |-> "query", signer |-> "", contract |-> "basket", msg |-> "get_count"])
  /\ UNCHANGED <<proc, ledger>>

\* (mutant) the signer passed is ignored
increment_always_validator(passed) ==
  /\ Len(clientCalls) < MaxCalls
  /\ clientCalls' = Append(clientCalls,
       [by |-> "increment", passed |-> passed,
        fn |-> "execute", signer |-> VALIDATOR, contract |-> "basket",
        msg |-> "increment"])
  /\ UNCHANGED <<proc, ledger>>

\* increment: (signer = wallets.validator) => client.execute(signer, "basket", ...)
increment(passed) ==
  /\ Len(clientCalls) < MaxCalls
  /\ LET signer == IF passed = "undefined" THEN VALIDATOR ELSE passed
     IN clientCalls' = Append(clientCalls,
          [by |-> "increment", passed |-> passed,
           fn |-> "execute", signer |-> signer, contract |-> "basket",
           msg |-> "increment"])
  /\ UNCHANGED <<proc, ledger>>

---------------------------------------------------------------------------
(* Specifications *)

\* one run of any script, with any environment and any command line
Init ==
  /\ \E s \in Scripts, e \in Envs, a \in Argvs :
       proc = [r \in Runs |-> IF r = 1 THEN Process(s, e, a, "start") ELSE Off]
  /\ ledger = <<>>
  /\ clientCalls = <<>>

Next ==
  \E r \in Runs :
    \/ Start(r)
    \/ FetchDone(r)
    \/ JsonDone(r)
    \/ BankBalanceDone(r)
    \/ ContractQueryDone(r)
    \/ SignDone(r)
    \/ BroadcastDone(r)

Spec == Init /\ [][Next]_vars

\* the scripts run side by side as the README sets them up: both variables
\* exported, a command line that every script accepts
ReadmeEnv == [CONTRACT |-> BASKET, LP_CONTRACT |-> LP]
ReadmeArgv == <<ULUNA, AMOUNT_100000, UUSD>>

\* a script that attaches coins, the one that sends LP tokens, and a query
ConcScripts == {"swap", "withdraw", "query_lp"}

ConcInit ==
  /\ proc \in [Runs -> {Process(s, ReadmeEnv, ReadmeArgv, "start") : s \in ConcScripts}]
  /\ ledger = <<>>
  /\ clientCalls = <<>>

ConcSpec == ConcInit /\ [][Next]_vars

\* the harness calling the stub
StubInit ==
  /\ proc = [r \in Runs |-> Off]
  /\ ledger = <<>>
  /\ clientCalls = <<>>

StubNext == getCount \/ \E passed \in Signers : increment(passed)

StubSpec == StubInit /\ [][StubNext]_vars

---------------------------------------------------------------------------
(* Properties *)

Has(p, ev) == \E i \in 1..Len(p.trace) : p.trace[i] = ev
Count(p, ev) == Cardinality({i \in 1..Len(p.trace) : p.trace[i] = ev})
\* every occurrence of b comes after an occurrence of a
Precedes(p, a, b) ==
  \A i \in 1..Len(p.trace) :
    p.trace[i] = b => \E j \in 1..(i - 1) : p.trace[j] = a

Call(api) == <<"call", api>>
NodeCalls == {Call("contractQuery"), Call("bank.balance"),
              Call("createAndSignTx"), Call("broadcast")}
ErrorStrings == {"Usage", "Please set CONTRACT", "Please set LP_CONTRACT"}

TaskScripts == {"query_basket", "query_lp", "provide_liquidity", "swap", "withdraw"}
QueryScripts == {"query_basket", "query_lp"}
TxScripts == {"provide_liquidity", "swap", "withdraw"}

PrintsResult(p) == \E v \in ResultVars : Has(p, <<"log", v>>)
SignedWithMnemonic(p) == p.tx.signed /\ p.tx.signer = accAddress(MNEMONIC)

\* C1 as the spec words it: every task script that runs to its end has built
\* an LCD client, signed a transaction with the mnemonic key and printed a result.
C1_EveryScriptSigns ==
  \A r \in Runs :
    LET p == proc[r] IN
    (p.script \in TaskScripts /\ p.pc = "done") =>
      Has(p, <<"new", "LCDClient">>) /\ SignedWithMnemonic(p) /\ PrintsResult(p)

\* C1, amended: every task script that runs to its end has built its own LCD
\* client and printed a result; provide_liquidity, swap and withdraw have signed
\* one transaction with the hardcoded mnemonic key, and query_basket and
\* query_lp have signed nothing.
C1_ClientAndPrintSignOnlyTx ==
  \A r \in Runs :
    LET p == proc[r] IN
    (p.script \in TaskScripts /\ p.pc = "done") =>
      /\ Count(p, <<"new", "LCDClient">>) = 1
      /\ PrintsResult(p)
      /\ p.script \in TxScripts =>
           SignedWithMnemonic(p) /\ Count(p, Call("createAndSignTx")) = 1
      /\ p.script \in QueryScripts =>
           p.tx = NoTx /\ ~Has(p, Call("createAndSignTx"))

C1_Witness ==
  \E r \in Runs :
    /\ proc[r].script = "withdraw" /\ proc[r].pc = "done"
    /\ proc[r].tx.signed /\ Has(proc[r], <<"log", "lpBalanceAfter">>)

MissingInput(p) ==
  \/ p.script \in (TxScripts \cup {"query_basket"}) /\ p.env.CONTRACT = ""
  \/ p.script \in (TxScripts \cup {"query_lp"}) /\ p.env.LP_CONTRACT = ""
  \/ p.script \in {"provide_liquidity", "withdraw"} /\ Len(p.argv) < 2
  \/ p.script = "swap" /\ Len(p.argv) < 3

\* C2: a run with a required input missing ends in its first turn, having
\* logged an error string and nothing after it, and having fetched, built,
\* queried, signed and broadcast nothing.
C2_MissingInputStops ==
  \A r \in Runs :
    LET p == proc[r] IN
    (MissingInput(p) /\ p.pc # "start") =>
      /\ p.pc = "crashed" /\ p.awaiting = ""
      /\ \E i \in 1..Len(p.trace) :
           /\ p.trace[i][1] = "log" /\ p.trace[i][2] \in ErrorStrings
           /\ \A j \in (i + 1)..Len(p.trace) : p.trace[j][1] = "throw"
      /\ \A i \in 1..Len(p.trace) : p.trace[i][1] \notin {"call", "new", "got"}
      /\ p.queries = <<>> /\ p.msg = NoMsg /\ p.tx = NoTx
      /\ \A i \in 1..Len(ledger) : ledger[i].run # r

C2_Witness ==
  \E r \in Runs :
    /\ proc[r].script = "swap" /\ Len(proc[r].argv) = 3
    /\ proc[r].env.CONTRACT # "" /\ proc[r].env.LP_CONTRACT = ""
    /\ proc[r].pc = "crashed"
    /\ Has(proc[r], <<"log", "Please set LP_CONTRACT">>)

\* C3: in every script, every query, signing and broadcast comes after the gas
\* prices have arrived and the LCD client has been built from them, and every
\* result is printed after the call that produced it has completed.
C3_FetchClientCallPrint ==
  \A r \in Runs :
    LET p == proc[r] IN
    /\ Precedes(p, Call("fetch"), <<"got", "gasPrices">>)
    /\ Precedes(p, <<"got", "gasPrices">>, <<"new", "LCDClient">>)
    /\ \A c \in NodeCalls : Precedes(p, <<"new", "LCDClient">>, c)
    /\ \A v \in ResultVars :
         /\ Precedes(p, <<"got", v>>, <<"log", v>>)
         /\ Has(p, <<"log", v>>) /\ v \in {"balanceBefore", "lpBalanceBefore",
                                           "balanceAfter", "lpBalanceAfter"}
              => p.seen[v] >= 0

C3_Witness ==
  \E r \in Runs :
    /\ proc[r].script = "provide_liquidity" /\ proc[r].pc = "done"
    /\ Has(proc[r], <<"log", "balanceAfter">>)

\* the transactions of the wallet's account, in the order the chain applied them
AccountTxs == SelectSeq(ledger, LAMBDA t : t.sender = accAddress(MNEMONIC))
Window(p) == SubSeq(AccountTxs, p.seen["balanceBefore"] + 1, p.seen["balanceAfter"])
Own(r, w) == Cardinality({i \in 1..Len(w) : w[i].run = r})

\* C4 as claimed: between the before balance and the after balance a run
\* prints, the account changed by that run's own transaction only.
C4_OnlyOwnTransaction ==
  \A r \in Runs :
    LET p == proc[r] IN
    (p.script \in TxScripts /\ p.seen["balanceAfter"] >= 0) =>
      p.seen["balanceAfter"] - p.seen["balanceBefore"]
        = (IF p.txResult = "accepted" THEN 1 ELSE 0)

\* C4, amended: the runs share no process state but all act on the account of
\* the one hardcoded mnemonic.  Between the before balance and the after
\* balance a run prints lies that run's own transaction, once if it was
\* accepted and not at all if it was refused, together with every transaction
\* of the other runs that the chain applied in between.
C4_OwnTransactionAmongOthers ==
  \A r \in Runs :
    LET p == proc[r] IN
    (p.script \in TxScripts /\ p.seen["balanceAfter"] >= 0) =>
      /\ p.seen["balanceBefore"] >= 0
      /\ p.seen["balanceAfter"] <= Len(AccountTxs)
      /\ Own(r, Window(p)) = (IF p.txResult = "accepted" THEN 1 ELSE 0)
      /\ Own(r, AccountTxs) = Own(r, Window(p))
      /\ \A i \in 1..Len(Window(p)) :
           Window(p)[i].run # r =>
             /\ proc[Window(p)[i].run].txResult = "accepted"
             /\ proc[Window(p)[i].run].tx.signer = p.tx.signer

C4_Witness ==
  \E r \in Runs :
    /\ proc[r].script = "swap" /\ proc[r].pc = "done"
    /\ proc[r].txResult = "accepted"
    /\ proc[r].seen["balanceAfter"] - proc[r].seen["balanceBefore"] = 2

\* C5: query_basket asks CONTRACT for {basket: {}} and query_lp asks
\* LP_CONTRACT for {balance: {address}} of the mnemonic's address: at most one
\* query at any time and exactly one, with its result printed, in a run that
\* ends; neither signs or broadcasts, and the chain holds nothing from them.
C5_QueriesReadOnly ==
  \A r \in Runs :
    LET p == proc[r] IN
    p.script \in QueryScripts =>
      /\ Len(p.queries) <= 1
      /\ Count(p, Call("contractQuery")) = Len(p.queries)
      /\ \A i \in 1..Len(p.queries) :
           /\ p.queries[i].api = "contractQuery"
           /\ p.script = "query_basket" =>
                /\ p.queries[i].to = p.env.CONTRACT /\ p.env.CONTRACT = BASKET
                /\ p.queries[i].q = "basket"
           /\ p.script = "query_lp" =>
                /\ p.queries[i].to = p.env.LP_CONTRACT /\ p.env.LP_CONTRACT = LP
                /\ p.queries[i].q = "balance"
                /\ p.queries[i].address = accAddress(MNEMONIC)
      /\ p.pc = "done" =>
           /\ Len(p.queries) = 1
           /\ Count(p, <<"log", "result">>) = 1
           /\ Precedes(p, <<"got", "result">>, <<"log", "result">>)
      /\ ~Has(p, Call("createAndSignTx")) /\ ~Has(p, Call("broadcast"))
      /\ ~Has(p, Call("bank.balance"))
      /\ p.msg = NoMsg /\ p.tx = NoTx
      /\ \A i \in 1..Len(ledger) : ledger[i].run # r

C5_Witness ==
  \E r \in Runs :
    /\ proc[r].script = "query_lp" /\ proc[r].pc = "done"
    /\ Len(proc[r].queries) = 1 /\ proc[r].queries[1].to = LP

\* the place of the n-th occurrence of an event, 0 when there is none
Place(p, ev, n) ==
  LET at == {i \in 1..Len(p.trace) :
               p.trace[i] = ev
               /\ Cardinality({j \in 1..i : p.trace[j] = ev}) = n}
  IN IF at = {} THEN 0 ELSE CHOOSE i \in at : TRUE

\* C6: in swap, provide_liquidity and withdraw the before balance is queried
\* (and has arrived) before signing starts, the broadcast starts after
\* createAndSignTx completed, at most one transaction is broadcast (exactly one
\* in a run that ends), and the after balance is queried after the broadcast
\* returned.
C6_BeforeSignBroadcastAfter ==
  \A r \in Runs :
    LET p == proc[r] IN
    p.script \in TxScripts =>
      /\ Precedes(p, <<"got", "balanceBefore">>, Call("createAndSignTx"))
      /\ Precedes(p, <<"got", "balanceBefore">>, <<"log", "balanceBefore">>)
      /\ Precedes(p, <<"got", "tx">>, Call("broadcast"))
      /\ Has(p, Call("broadcast")) => p.tx.signed
      /\ Count(p, Call("broadcast")) <= 1
      /\ Count(p, Call("createAndSignTx")) <= 1
      /\ Count(p, Call("bank.balance")) <= 2
      /\ p.pc = "done" => Count(p, Call("broadcast")) = 1
      /\ Place(p, Call("bank.balance"), 2) > 0 =>
           /\ 0 < Place(p, <<"got", "result">>, 1)
           /\ Place(p, <<"got", "result">>, 1) < Place(p, Call("bank.balance"), 2)
      /\ Has(p, <<"got", "balanceAfter">>) =>
           Place(p, Call("bank.balance"), 2) < Place(p, <<"got", "balanceAfter">>, 1)
      /\ Precedes(p, <<"got", "balanceAfter">>, <<"log", "balanceAfter">>)
      /\ Own(r, ledger) <= 1

C6_Witness ==
  \E r \in Runs :
    /\ proc[r].script = "swap" /\ proc[r].pc = "done"
    /\ Count(proc[r], Call("broadcast")) = 1
    /\ Has(proc[r], <<"log", "balanceAfter">>)

Built(p) == Has(p, <<"new", "MsgExecuteContract">>)

\* C7: the coins attached by provide_liquidity and swap are the asset the
\* payload declares, both the denom and the amount of the command line; the
\* sender is the signing wallet's address and the message goes to CONTRACT.
C7_CoinsEqualDeclaredAsset ==
  \A r \in Runs :
    LET p == proc[r]
        m == p.msg
    IN
    /\ (p.script = "provide_liquidity" /\ Built(p)) =>
         LET assets == m.execute_msg.deposit_liquidity.assets IN
         /\ m.coins = <<[denom |-> p.argv[1], amount |-> p.argv[2]]>>
         /\ Len(assets) = 1
         /\ assets[1].info.native_token.denom = m.coins[1].denom
         /\ assets[1].amount = m.coins[1].amount
         /\ m.sender = accAddress(p.wallet) /\ p.wallet = MNEMONIC
         /\ m.contract = p.env.CONTRACT /\ m.contract = BASKET
         /\ p.tx.msgs = <<m>> /\ p.tx.signer = m.sender
    /\ (p.script = "swap" /\ Built(p)) =>
         LET s == m.execute_msg.swap IN
         /\ m.coins = <<[denom |-> p.argv[1], amount |-> p.argv[2]]>>
         /\ s.offer_asset.info.native_token.denom = m.coins[1].denom
         /\ s.offer_asset.amount = m.coins[1].amount
         /\ s.ask_asset.native_token.denom = p.argv[3]
         /\ s.sender = m.sender
         /\ m.sender = accAddress(p.wallet) /\ p.wallet = MNEMONIC
         /\ m.contract = p.env.CONTRACT /\ m.contract = BASKET
         /\ p.tx.msgs = <<m>> /\ p.tx.signer = m.sender

C7_Witness ==
  \E r \in Runs :
    /\ proc[r].script = "swap" /\ Built(proc[r])
    /\ proc[r].argv = <<UUSD, AMOUNT_100000, ULUNA>>
    /\ proc[r].txResult = "accepted"

\* the one value under the one key of a JSON object, SyntaxError otherwise
Only(v, key) ==
  IF v.t = "obj" /\ Len(v.kv) = 1 /\ v.kv[1][1] = key THEN v.kv[1][2] ELSE SyntaxError

\* C8: withdraw's message goes to LP_CONTRACT, carries no coins, and is a
\* cw20 send to CONTRACT of the command line's amount whose msg, base64-decoded
\* and JSON-parsed, is {withdraw_liquidity: {asset: {native_token: {denom}}}}
\* with the command line's denom; the run broadcasts at most this one message.
C8_WithdrawSendsHook ==
  \A r \in Runs :
    LET p == proc[r]
        m == p.msg
    IN
    (p.script = "withdraw" /\ Built(p)) =>
      /\ m.contract = p.env.LP_CONTRACT /\ m.contract = LP
      /\ m.sender = accAddress(MNEMONIC)
      /\ m.coins = <<>>
      /\ DOMAIN m.execute_msg = {"send"}
      /\ m.execute_msg.send.contract = p.env.CONTRACT
      /\ m.execute_msg.send.contract = BASKET
      /\ m.execute_msg.send.amount = p.argv[2]
      /\ LET hook == JSON_parse(atob(m.execute_msg.send.msg)) IN
         Only(Only(Only(Only(hook, K_withdraw_liquidity), K_asset),
                   K_native_token), K_denom) = Str(p.argv[1])
      /\ p.tx.msgs = <<m>>
      /\ Count(p, Call("broadcast")) <= 1
      /\ \A i \in 1..Len(ledger) : ledger[i].run = r => ledger[i].contract = LP

C8_Witness ==
  \E r \in Runs :
    /\ proc[r].script = "withdraw" /\ proc[r].txResult = "accepted"
    /\ proc[r].argv[1] = QUOTED
    /\ Len(ledger) = 1

\* C9: the hardcoded swap queries and prints the balance at most once (once
\* when main has returned), builds the fixed message (100000 uluna for uusd, to
\* the fixed contract), starts signing and returns without waiting for the
\* signature; it never broadcasts, never queries the balance again, and the
\* chain holds nothing from it.
C9_HardcodedSwapNeverBroadcasts ==
  \A r \in Runs :
    LET p == proc[r] IN
    p.script = "swap_hardcoded" =>
      /\ ~Has(p, Call("broadcast"))
      /\ Count(p, Call("bank.balance")) <= 1
      /\ Count(p, <<"log", "balanceBefore">>) <= 1
      /\ p.seen["balanceAfter"] = -1
      /\ p.txResult = ""
      /\ \A i \in 1..Len(ledger) : ledger[i].run # r
      /\ Precedes(p, <<"return", "main">>, <<"got", "tx">>)
      /\ Has(p, <<"return", "main">>) =>
           /\ Count(p, Call("bank.balance")) = 1
           /\ Count(p, <<"log", "balanceBefore">>) = 1
           /\ Count(p, Call("createAndSignTx")) = 1
           /\ p.msg.contract = HARDCODED_CONTRACT
           /\ p.msg.coins = <<[denom |-> ULUNA, amount |-> AMOUNT_100000]>>
           /\ p.msg.execute_msg.swap.ask_asset.native_token.denom = UUSD
           /\ p.msg.execute_msg.swap.offer_asset.amount = AMOUNT_100000
           /\ p.msg.execute_msg.swap.offer_asset.info.native_token.denom = ULUNA

C9_Witness ==
  \E r \in Runs :
    /\ proc[r].script = "swap_hardcoded" /\ proc[r].pc = "returned"
    /\ proc[r].awaiting = "createAndSignTx" /\ ~proc[r].tx.signed

\* C10: a call of getCount adds one client.query on "basket" with
\* {get_count: {}} and no client.execute; a call of increment adds one
\* client.execute on "basket" with {increment: {}}, signed by the signer
\* passed, and by wallets.validator when none is passed.
C10_StubCalls ==
  [][/\ Len(clientCalls') = Len(clientCalls) + 1
     /\ SubSeq(clientCalls', 1, Len(clientCalls)) = clientCalls
     /\ LET c == clientCalls'[Len(clientCalls')] IN
        /\ c.contract = "basket"
        /\ c.by = "getCount" => c.fn = "query" /\ c.msg = "get_count"
        /\ c.by = "increment" =>
             /\ c.fn = "execute" /\ c.msg = "increment"
             /\ c.signer = (IF c.passed = "undefined" THEN VALIDATOR ELSE c.passed)]_vars

C10_Witness ==
  /\ \E i \in 1..Len(clientCalls) :
       clientCalls[i].passed = "undefined" /\ clientCalls[i].signer = VALIDATOR
       /\ clientCalls[i].fn = "execute"
  /\ \E i \in 1..Len(clientCalls) :
       clientCalls[i].passed = "wallets.alice" /\ clientCalls[i].signer = "wallets.alice"
  /\ \E i \in 1..Len(clientCalls) : clientCalls[i].fn = "query"

=============================================================================
